---- MODULE Spec2Model ----
(***************************************************************************)
(* A model of bitty (src/bitty.py), a tiny database layer: the statement   *)
(* compilers of BaseSQLAdapter, the column cache of the adapters, statement*)
(* execution through raw() and the CRUD surface of the Bitty facade.       *)
(*                                                                         *)
(* Python strings are sequences of one-character strings, so that          *)
(* str.split, sorted(), ', '.join and %-formatting are computed character  *)
(* by character.  A Python value is a record [t, n, s, l]: an int (n), a   *)
(* str (s), a list (l) or None.                                            *)
(***************************************************************************)
EXTENDS Integers, Sequences, FiniteSets, TLC

VARIABLES
    kind,            \* which adapter class Bitty.get_adapter built
    connection,      \* "open" or "closed": the driver connection of the adapter
    _tables,         \* self._tables: table name -> sorted column names (the cache)
    db,              \* the database as this connection sees it: schema and rows
    committed,       \* the database as committed (what other connections see)
    log,             \* driver calls of the last operation, in order
    introspections,  \* table name -> number of introspection queries issued
    calls,           \* number of calls made on the facade so far
    ret              \* the last call: its operation, arguments and outcome

vars == <<kind, connection, _tables, db, committed, log, introspections, calls, ret>>

-----------------------------------------------------------------------------
(* Characters, in code point order (what sorted() compares by).             *)
Alphabet ==
    <<" ", "%", "'", "(", ")", "*", ",", "0", "1", "2", "3", "4", "5", "6", "7",
      "8", "9", ";", "<", "=", ">", "?", "A", "B", "C", "D", "E", "F", "G", "H",
      "I", "J", "K", "L", "M", "N", "O", "P", "Q", "R", "S", "T", "U", "V", "W",
      "X", "Y", "Z", "\\", "_", "a", "b", "c", "d", "e", "f", "g", "h", "i", "j",
      "k", "l", "m", "n", "o", "p", "q", "r", "s", "t", "u", "v", "w", "x", "y",
      "z">>

Ord(c) == CHOOSE i \in 1..Len(Alphabet) : Alphabet[i] = c

(* a < b for two Python strings.                                            *)
RECURSIVE StrLess(_, _)
StrLess(a, b) ==
    IF b = <<>> THEN FALSE
    ELSE IF a = <<>> THEN TRUE
    ELSE IF Head(a) = Head(b) THEN StrLess(Tail(a), Tail(b))
    ELSE Ord(Head(a)) < Ord(Head(b))

(* sorted(names): insertion of each name into an ascending list.            *)
RECURSIVE Insert(_, _)
Insert(x, s) ==
    IF s = <<>> THEN <<x>>
    ELSE IF StrLess(Head(s), x) THEN <<Head(s)>> \o Insert(x, Tail(s))
    ELSE <<x>> \o s

RECURSIVE sorted(_)
sorted(names) ==
    IF names = <<>> THEN <<>> ELSE Insert(Head(names), sorted(Tail(names)))

(* The concatenation of the sequences of a sequence.                        *)
RECURSIVE Flatten(_)
Flatten(ss) == IF ss = <<>> THEN <<>> ELSE Head(ss) \o Flatten(Tail(ss))

(* sep.join(parts)                                                          *)
RECURSIVE join(_, _)
join(sep, parts) ==
    IF parts = <<>> THEN <<>>
    ELSE IF Len(parts) = 1 THEN parts[1]
    ELSE parts[1] \o sep \o join(sep, Tail(parts))

(* s.split('__'): cut at each non-overlapping "__", scanning left to right. *)
RECURSIVE SplitFrom(_, _, _)
SplitFrom(s, cur, acc) ==
    IF s = <<>> THEN Append(acc, cur)
    ELSE IF Len(s) >= 2 /\ s[1] = "_" /\ s[2] = "_"
         THEN SplitFrom(SubSeq(s, 3, Len(s)), <<>>, Append(acc, cur))
    ELSE SplitFrom(Tail(s), Append(cur, Head(s)), acc)

split(s) == SplitFrom(s, <<>>, <<>>)

-----------------------------------------------------------------------------
(* Python values.                                                           *)
IntV(n) == [t |-> "int", n |-> n, s |-> <<>>, l |-> <<>>]
StrV(s) == [t |-> "str", n |-> 0, s |-> s, l |-> <<>>]
ListV(l) == [t |-> "list", n |-> 0, s |-> <<>>, l |-> l]
NoneV == [t |-> "none", n |-> 0, s |-> <<>>, l |-> <<>>]

Digit(d) == Alphabet[8 + d]

RECURSIVE Digits(_)
Digits(n) == IF n < 10 THEN <<Digit(n)>> ELSE Digits(n \div 10) \o <<Digit(n % 10)>>

(* What "%s" % value puts in the string: str(value).                        *)
PyStr(v) ==
    IF v.t = "str" THEN v.s
    ELSE IF v.t = "int" THEN Digits(v.n)
    ELSE <<"N", "o", "n", "e">>

(* kwargs is the keyword mapping in the order the caller supplied it:       *)
(* a sequence of <<name, value>> with distinct names.                       *)
keys(kwargs) == [i \in 1..Len(kwargs) |-> kwargs[i][1]]

Get(kwargs, name) ==
    kwargs[CHOOSE i \in 1..Len(kwargs) : kwargs[i][1] = name][2]

-----------------------------------------------------------------------------
(* The adapter classes and their class attributes.                          *)
Kinds == {"sqlite", "postgres", "mysql"}

BINDING_OP(k) == IF k = "sqlite" THEN <<"?">> ELSE <<"%", "s">>

s_lt == <<"l", "t">>
s_lte == <<"l", "t", "e">>
s_gt == <<"g", "t">>
s_gte == <<"g", "t", "e">>
s_startswith == <<"s", "t", "a", "r", "t", "s", "w", "i", "t", "h">>
s_endswith == <<"e", "n", "d", "s", "w", "i", "t", "h">>
s_contains == <<"c", "o", "n", "t", "a", "i", "n", "s">>
s_in == <<"i", "n">>

(* The pieces of statement text the adapters put together; catalog stands   *)
(* for the pg_attribute query of PostgresAdapter, shortened to the table it *)
(* names.                                                                   *)
Text ==
    [
     lt |-> <<" ", "<", " ">>,
     lte |-> <<" ", "<", "=", " ">>,
     gt |-> <<" ", ">", " ">>,
     gte |-> <<" ", ">", "=", " ">>,
     like |-> <<" ", "L", "I", "K", "E", " ">>,
     escape |-> <<" ", "E", "S", "C", "A", "P", "E", " ", "'", "\\", "'">>,
     insert_into |-> <<"I", "N", "S", "E", "R", "T", " ", "I", "N", "T", "O", " ">>,
     values |-> <<" ", "V", "A", "L", "U", "E", "S", " ">>,
     where |-> <<"W", "H", "E", "R", "E", " ">>,
     and |-> <<" ", "A", "N", "D", " ">>,
     update |-> <<"U", "P", "D", "A", "T", "E", " ">>,
     set |-> <<" ", "S", "E", "T", " ">>,
     where_id |-> <<" ", "W", "H", "E", "R", "E", " ", "i", "d", " ", "=", " ">>,
     delete_from |-> <<"D", "E", "L", "E", "T", "E", " ", "F", "R", "O", "M", " ">>,
     select |-> <<"S", "E", "L", "E", "C", "T", " ">>,
     from |-> <<" ", "F", "R", "O", "M", " ">>,
     eq |-> <<" ", "=", " ">>,
     in |-> <<" ", "I", "N", " ", "(">>,
     comma |-> <<",", " ">>,
     select_star |-> <<"S", "E", "L", "E", "C", "T", " ", "*", " ", "F", "R", "O", "M", " ">>,
     desc |-> <<"D", "E", "S", "C", " ">>,
     catalog |-> <<"S", "E", "L", "E", "C", "T", " ", "p", "g", "_", "a", "t", "t", "r", "i",
                   "b", "u", "t", "e", " ">>
    ]

FilterOps == {s_lt, s_lte, s_gt, s_gte, s_startswith, s_endswith, s_contains}

(* FILTER_OPTIONS[op] % (column, bind): the text between the two %s and the *)
(* text after the second.                                                   *)
FILTER_OPTIONS(k, op) ==
    IF op = s_lt THEN <<Text.lt, <<>>>>
    ELSE IF op = s_lte THEN <<Text.lte, <<>>>>
    ELSE IF op = s_gt THEN <<Text.gt, <<>>>>
    ELSE IF op = s_gte THEN <<Text.gte, <<>>>>
    ELSE <<Text.like, IF k = "sqlite" THEN Text.escape ELSE <<>>>>

-----------------------------------------------------------------------------
(* The statement compilers of BaseSQLAdapter.  A compiler returns the pair  *)
(* (query, values) or raises.                                               *)
Compiled(q, v) == [status |-> "ok", query |-> q, values |-> v]
Raised(e) == [status |-> e, query |-> <<>>, values |-> <<>>]

(* The insert statement for the column names in their compiled order.      *)
InsertQuery(k, table, kwargs, column_names) ==
    LET values == [i \in 1..Len(column_names) |-> Get(kwargs, column_names[i])]
        binds == [i \in 1..Len(values) |-> BINDING_OP(k)]
    IN  Compiled(Text.insert_into \o table \o <<" ", "(">> \o join(Text.comma, column_names)
                   \o <<")">> \o Text.values \o <<"(">> \o join(Text.comma, binds) \o <<")">>,
                 values)

(* The insert statement with the names in the order the caller gave them.   *)
_build_insert_query_unsorted(k, table, kwargs) == InsertQuery(k, table, kwargs, keys(kwargs))

_build_insert_query(k, table, kwargs) == InsertQuery(k, table, kwargs, sorted(keys(kwargs)))

(* The elements a for-loop over value visits; an int or None has none.      *)
Iterable(v) == v.t \in {"list", "str"}

Elements(v) ==
    IF v.t = "list" THEN v.l ELSE [i \in 1..Len(v.s) |-> StrV(<<v.s[i]>>)]

(* A bind value with the wildcard on the wrong side of startswith.           *)
LikeValuePrepending(op, value) ==
    IF op \in FilterOps \ {s_lt, s_lte, s_gt, s_gte}
    THEN StrV(<<"%">> \o PyStr(value) \o (IF op = s_contains THEN <<"%">> ELSE <<>>))
    ELSE value

(* The bind value of a FILTER_OPTIONS lookup.                               *)
LikeValue(op, value) ==
    LET v1 == IF op \in {s_startswith, s_contains}
              THEN StrV(PyStr(value) \o <<"%">>) ELSE value
    IN  IF op \in {s_endswith, s_contains} THEN StrV(<<"%">> \o PyStr(v1)) ELSE v1

(* A pass of the loop that refuses an operator it does not know.            *)
WhereStepStrict(k, column_info, value) ==
    IF Len(column_info) > 2 THEN [err |-> "QueryError", clause |-> <<>>, binds |-> <<>>]
    ELSE IF Len(column_info) = 1
    THEN [err |-> "", clause |-> column_info[1] \o Text.eq \o BINDING_OP(k),
          binds |-> <<value>>]
    ELSE IF column_info[2] = s_in
    THEN IF ~Iterable(value)
         THEN [err |-> "TypeError", clause |-> <<>>, binds |-> <<>>]
         ELSE [err |-> "",
               clause |-> column_info[1] \o Text.in
                            \o join(Text.comma, [i \in 1..Len(Elements(value)) |-> BINDING_OP(k)])
                            \o <<")">>,
               binds |-> Elements(value)]
    ELSE IF column_info[2] \in FilterOps
    THEN [err |-> "",
          clause |-> column_info[1] \o FILTER_OPTIONS(k, column_info[2])[1]
                       \o BINDING_OP(k) \o FILTER_OPTIONS(k, column_info[2])[2],
          binds |-> <<LikeValue(column_info[2], value)>>]
    ELSE [err |-> "QueryError", clause |-> <<>>, binds |-> <<>>]

(* One pass of the loop body of _build_where_clause for a key that split    *)
(* into column_info: the clause and the bind values it appends, or the      *)
(* error it raises.                                                         *)
WhereStep(k, column_info, value) ==
    IF Len(column_info) > 2 THEN [err |-> "QueryError", clause |-> <<>>, binds |-> <<>>]
    ELSE IF Len(column_info) = 1
    THEN [err |-> "", clause |-> column_info[1] \o Text.eq \o BINDING_OP(k),
          binds |-> <<value>>]
    ELSE IF column_info[2] = s_in
    THEN IF ~Iterable(value)
         THEN [err |-> "TypeError", clause |-> <<>>, binds |-> <<>>]
         ELSE [err |-> "",
               clause |-> column_info[1] \o Text.in
                            \o join(Text.comma, [i \in 1..Len(Elements(value)) |-> BINDING_OP(k)])
                            \o <<")">>,
               binds |-> Elements(value)]
    ELSE IF column_info[2] \in FilterOps
    THEN [err |-> "",
          clause |-> column_info[1] \o FILTER_OPTIONS(k, column_info[2])[1]
                       \o BINDING_OP(k) \o FILTER_OPTIONS(k, column_info[2])[2],
          binds |-> <<LikeValue(column_info[2], value)>>]
    ELSE [err |-> "", clause |-> column_info[1] \o Text.eq \o BINDING_OP(k),
          binds |-> <<value>>]

(* A loop that drops the passes that raise and compiles the others.         *)
WhereLoopPartial(steps) ==
    LET good == SelectSeq(steps, LAMBDA st : st.err = "")
    IN  Compiled(Text.where \o join(Text.and, [i \in 1..Len(good) |-> good[i].clause]),
                 Flatten([i \in 1..Len(good) |-> good[i].binds]))

(* The for-loop over the sorted keys: steps[i] is the pass for names[i];    *)
(* the first pass that raises ends the loop.                                *)
WhereLoop(steps) ==
    IF \E i \in 1..Len(steps) : steps[i].err # ""
    THEN Raised(steps[CHOOSE i \in 1..Len(steps) :
                        steps[i].err # "" /\ \A j \in 1..(i - 1) : steps[j].err = ""].err)
    ELSE Compiled(Text.where \o join(Text.and, [i \in 1..Len(steps) |-> steps[i].clause]),
                  Flatten([i \in 1..Len(steps) |-> steps[i].binds]))

WhereSteps(k, kwargs, names) ==
    [i \in 1..Len(names) |-> WhereStep(k, split(names[i]), Get(kwargs, names[i]))]

(* The where clause with the keys in the order the caller gave them.        *)
_build_where_clause_unsorted(k, kwargs) ==
    IF Len(kwargs) = 0 THEN Compiled(<<>>, <<>>)
    ELSE WhereLoop(WhereSteps(k, kwargs, keys(kwargs)))

_build_where_clause(k, kwargs) ==
    IF Len(kwargs) = 0 THEN Compiled(<<>>, <<>>)
    ELSE WhereLoop(WhereSteps(k, kwargs, sorted(keys(kwargs))))

(* An update statement that binds the primary key first.                    *)
UpdateQueryPkFirst(k, table, pk, kwargs, column_names) ==
    LET values == [i \in 1..Len(column_names) |-> Get(kwargs, column_names[i])]
        where == [i \in 1..Len(column_names) |-> column_names[i] \o Text.eq \o BINDING_OP(k)]
    IN  Compiled(Text.update \o table \o Text.set \o join(Text.comma, where) \o Text.where_id
                   \o BINDING_OP(k),
                 <<pk>> \o values)

(* The update statement for the column names in their compiled order.      *)
UpdateQuery(k, table, pk, kwargs, column_names) ==
    LET values == [i \in 1..Len(column_names) |-> Get(kwargs, column_names[i])]
        where == [i \in 1..Len(column_names) |-> column_names[i] \o Text.eq \o BINDING_OP(k)]
    IN  Compiled(Text.update \o table \o Text.set \o join(Text.comma, where) \o Text.where_id
                   \o BINDING_OP(k),
                 Append(values, pk))

_build_update_query(k, table, pk, kwargs) ==
    UpdateQuery(k, table, pk, kwargs, sorted(keys(kwargs)))

_build_delete_query(k, table, pk) ==
    Compiled(Text.delete_from \o table \o Text.where_id \o BINDING_OP(k), <<pk>>)

-----------------------------------------------------------------------------
(* The database driver behind connection.cursor().execute(query, params):  *)
(* it reads the statement text, binds the i-th parameter to the i-th        *)
(* placeholder from the left, and runs the statement on the database.       *)
(* The words of the statements the driver reads.                            *)
KW ==
    [
     insert |-> <<"I", "N", "S", "E", "R", "T">>,
     into |-> <<"I", "N", "T", "O">>,
     values |-> <<"V", "A", "L", "U", "E", "S">>,
     update |-> <<"U", "P", "D", "A", "T", "E">>,
     set |-> <<"S", "E", "T">>,
     delete |-> <<"D", "E", "L", "E", "T", "E">>,
     select |-> <<"S", "E", "L", "E", "C", "T">>,
     from |-> <<"F", "R", "O", "M">>,
     where |-> <<"W", "H", "E", "R", "E">>,
     and |-> <<"A", "N", "D">>,
     like |-> <<"L", "I", "K", "E">>,
     in |-> <<"I", "N">>,
     escape |-> <<"E", "S", "C", "A", "P", "E">>,
     desc |-> <<"D", "E", "S", "C">>,
     alter |-> <<"A", "L", "T", "E", "R">>,
     table |-> <<"T", "A", "B", "L", "E">>,
     add |-> <<"A", "D", "D">>,
     column |-> <<"C", "O", "L", "U", "M", "N">>,
     catalog |-> <<"p", "g", "_", "a", "t", "t", "r", "i", "b", "u", "t", "e">>
    ]

Punct == {"(", ")", ",", ";"}
Comparisons == {<<"=">>, <<"<">>, <<"<", "=">>, <<">">>, <<">", "=">>}

(* The words of a statement: cut at blanks, punctuation as words of its own.*)
(* A word starts where a character that is not a blank follows a blank or   *)
(* punctuation (or is punctuation), and runs to the next blank or           *)
(* punctuation.                                                             *)
Words(text) ==
    LET plain(i) == text[i] # " " /\ text[i] \notin Punct
        starts == {i \in 1..Len(text) :
                     \/ text[i] \in Punct
                     \/ plain(i) /\ (i = 1 \/ ~plain(i - 1))}
        ends == {j \in 1..Len(text) : plain(j) /\ (j = Len(text) \/ ~plain(j + 1))}
        last(i) == IF text[i] \in Punct THEN i
                   ELSE CHOOSE j \in ends : j >= i /\ \A e \in ends : e >= i => j <= e
        nth(n) == CHOOSE i \in starts : Cardinality({j \in starts : j < i}) = n - 1
    IN  [n \in 1..Cardinality(starts) |-> SubSeq(text, nth(n), last(nth(n)))]

IsName(w) == w # <<>> /\ \A i \in 1..Len(w) : Ord(w[i]) >= Ord("_")

At(toks, i) == IF i >= 1 /\ i <= Len(toks) THEN toks[i] ELSE <<>>

(* item (, item)* from toks[i] on, up to the word stop: the items and the   *)
(* index after them.  what = "name" reads names, "bind" reads placeholders. *)
RECURSIVE Items(_, _, _, _, _)
Items(toks, i, b, what, acc) ==
    LET good == IF what = "name" THEN IsName(At(toks, i)) ELSE At(toks, i) = b
    IN  IF ~good THEN [ok |-> FALSE, items |-> acc, next |-> i]
        ELSE IF At(toks, i + 1) = <<",">>
        THEN Items(toks, i + 2, b, what, Append(acc, At(toks, i)))
        ELSE [ok |-> TRUE, items |-> Append(acc, At(toks, i)), next |-> i + 1]

(* name = bind (, name = bind)* from toks[i] on.                            *)
RECURSIVE Assignments(_, _, _, _)
Assignments(toks, i, b, acc) ==
    IF ~(IsName(At(toks, i)) /\ At(toks, i + 1) = <<"=">> /\ At(toks, i + 2) = b)
    THEN [ok |-> FALSE, items |-> acc, next |-> i]
    ELSE IF At(toks, i + 3) = <<",">>
    THEN Assignments(toks, i + 4, b, Append(acc, At(toks, i)))
    ELSE [ok |-> TRUE, items |-> Append(acc, At(toks, i)), next |-> i + 3]

(* One clause at toks[i], given the placeholder list inlist read after      *)
(* "IN (": whether it is well formed, its number of placeholders and the    *)
(* index after it.                                                          *)
Clause(toks, i, b, inlist) ==
    IF ~IsName(At(toks, i)) THEN [ok |-> FALSE, n |-> 0, next |-> i]
    ELSE IF At(toks, i + 1) \in Comparisons /\ At(toks, i + 2) = b
    THEN [ok |-> TRUE, n |-> 1, next |-> i + 3]
    ELSE IF At(toks, i + 1) = KW.like /\ At(toks, i + 2) = b
    THEN [ok |-> TRUE, n |-> 1, next |-> IF At(toks, i + 3) = KW.escape THEN i + 5 ELSE i + 3]
    ELSE IF At(toks, i + 1) = KW.in /\ At(toks, i + 2) = <<"(">>
            /\ inlist.ok /\ At(toks, inlist.next) = <<")">>
    THEN [ok |-> TRUE, n |-> Len(inlist.items), next |-> inlist.next + 1]
    ELSE [ok |-> FALSE, n |-> 0, next |-> i]

InList(toks, i, b) ==
    IF At(toks, i) = <<")">> THEN [ok |-> TRUE, items |-> <<>>, next |-> i]
    ELSE Items(toks, i, b, "bind", <<>>)

(* clause (AND clause)* from toks[i] to the end of the statement; each      *)
(* clause is [col, op, n, esc]: its column, operator, number of             *)
(* placeholders and whether it declares an escape character.                *)
RECURSIVE Clauses(_, _, _, _)
Clauses(toks, i, b, acc) ==
    LET one == Clause(toks, i, b, InList(toks, i + 3, b))
        got == Append(acc, [col |-> At(toks, i), op |-> At(toks, i + 1), n |-> one.n,
                            esc |-> At(toks, i + 1) = KW.like /\ At(toks, i + 3) = KW.escape])
    IN  IF ~one.ok THEN [ok |-> FALSE, items |-> acc]
        ELSE IF one.next > Len(toks) THEN [ok |-> TRUE, items |-> got]
        ELSE IF At(toks, one.next) = KW.and THEN Clauses(toks, one.next + 1, b, got)
        ELSE [ok |-> FALSE, items |-> acc]

(* [WHERE clauses] from toks[i] to the end.                                 *)
OptWhere(toks, i, b) ==
    IF i > Len(toks) \/ (i = Len(toks) /\ toks[i] = <<";">>)
    THEN [ok |-> TRUE, items |-> <<>>]
    ELSE IF toks[i] = KW.where THEN Clauses(toks, i + 1, b, <<>>)
    ELSE [ok |-> FALSE, items |-> <<>>]

Stmt(verb, table, cols, n, where) ==
    [verb |-> verb, table |-> table, cols |-> cols, n |-> n, where |-> where]

SyntaxError == Stmt("error", <<>>, <<>>, 0, <<>>)

ParseInsert(toks, b, cs) ==
    LET vs == Items(toks, cs.next + 3, b, "bind", <<>>)
    IN  IF cs.ok /\ At(toks, cs.next) = <<")">> /\ At(toks, cs.next + 1) = KW.values
           /\ At(toks, cs.next + 2) = <<"(">> /\ vs.ok
           /\ At(toks, vs.next) = <<")">> /\ vs.next >= Len(toks)
           /\ Len(cs.items) = Len(vs.items)
        THEN Stmt("insert", toks[3], cs.items, Len(vs.items), <<>>)
        ELSE SyntaxError

ParseUpdate(toks, b, as) ==
    LET wh == OptWhere(toks, as.next, b)
    IN  IF as.ok /\ wh.ok THEN Stmt("update", toks[2], as.items, Len(as.items), wh.items)
        ELSE SyntaxError

ParseDelete(toks, wh) ==
    IF wh.ok THEN Stmt("delete", toks[3], <<>>, 0, wh.items) ELSE SyntaxError

ParseSelect(toks, b, cs) ==
    LET wh == OptWhere(toks, cs.next + 2, b)
    IN  IF cs.ok /\ At(toks, cs.next) = KW.from /\ IsName(At(toks, cs.next + 1)) /\ wh.ok
        THEN Stmt("select", toks[cs.next + 1], cs.items, 0, wh.items)
        ELSE SyntaxError

SelectList(toks, b) ==
    IF At(toks, 2) = KW.from THEN [ok |-> TRUE, items |-> <<>>, next |-> 2]
    ELSE Items(toks, 2, b, "name", <<>>)

(* The statement a sequence of words is, with b the driver's placeholder.   *)
ParseWords(toks, b) ==
    IF At(toks, 1) = KW.insert /\ At(toks, 2) = KW.into /\ IsName(At(toks, 3))
       /\ At(toks, 4) = <<"(">>
    THEN ParseInsert(toks, b, Items(toks, 5, b, "name", <<>>))
    ELSE IF At(toks, 1) = KW.update /\ IsName(At(toks, 2)) /\ At(toks, 3) = KW.set
    THEN ParseUpdate(toks, b, Assignments(toks, 4, b, <<>>))
    ELSE IF At(toks, 1) = KW.delete /\ At(toks, 2) = KW.from /\ IsName(At(toks, 3))
    THEN ParseDelete(toks, OptWhere(toks, 4, b))
    ELSE IF At(toks, 1) = KW.select /\ At(toks, 2) = <<"*">> /\ At(toks, 3) = KW.from
            /\ IsName(At(toks, 4)) /\ Len(toks) = 4
    THEN Stmt("select_star", toks[4], <<>>, 0, <<>>)
    ELSE IF At(toks, 1) = KW.select /\ At(toks, 2) = KW.catalog
            /\ IsName(At(toks, 3)) /\ Len(toks) = 3
    THEN Stmt("catalog", toks[3], <<>>, 0, <<>>)
    ELSE IF At(toks, 1) = KW.select
    THEN ParseSelect(toks, b, SelectList(toks, b))
    ELSE IF At(toks, 1) = KW.desc /\ IsName(At(toks, 2)) /\ At(toks, 3) = <<";">>
            /\ Len(toks) = 3
    THEN Stmt("desc", toks[2], <<>>, 0, <<>>)
    ELSE IF At(toks, 1) = KW.alter /\ At(toks, 2) = KW.table /\ IsName(At(toks, 3))
            /\ At(toks, 4) = KW.add /\ At(toks, 5) = KW.column /\ IsName(At(toks, 6))
            /\ Len(toks) = 6
    THEN Stmt("alter", toks[3], <<toks[6]>>, 0, <<>>)
    ELSE SyntaxError

Parse(text, b) == ParseWords(Words(text), b)

-----------------------------------------------------------------------------
(* Running a statement.  A database maps each existing table to its columns *)
(* (in the order of CREATE TABLE), its rows (column -> value) and whether   *)
(* id is its key (unique, and numbered by the database when not supplied).  *)
Fold(c) == IF Ord(c) >= Ord("A") /\ Ord(c) <= Ord("Z") THEN Alphabet[Ord(c) + 28] ELSE c

(* s LIKE p: % is any run of characters, _ any one; with esc, a backslash   *)
(* makes the next pattern character literal; fold is ASCII case folding.    *)
RECURSIVE Like(_, _, _, _)
Like(p, s, esc, fold) ==
    LET same(a, b) == IF fold THEN Fold(a) = Fold(b) ELSE a = b
    IN  IF p = <<>> THEN s = <<>>
        ELSE IF esc /\ Head(p) = "\\" /\ Len(p) >= 2
        THEN s # <<>> /\ same(Head(s), p[2]) /\ Like(SubSeq(p, 3, Len(p)), Tail(s), esc, fold)
        ELSE IF Head(p) = "%"
        THEN Like(Tail(p), s, esc, fold) \/ (s # <<>> /\ Like(p, Tail(s), esc, fold))
        ELSE IF Head(p) = "_"
        THEN s # <<>> /\ Like(Tail(p), Tail(s), esc, fold)
        ELSE s # <<>> /\ same(Head(s), Head(p)) /\ Like(Tail(p), Tail(s), esc, fold)

Less(a, b) ==
    IF a.t = "int" /\ b.t = "int" THEN a.n < b.n
    ELSE IF a.t = "str" /\ b.t = "str" THEN StrLess(a.s, b.s)
    ELSE FALSE

(* Whether value val satisfies a clause whose placeholders hold ps.         *)
Holds(k, c, val, ps) ==
    IF val.t = "none" THEN FALSE
    ELSE IF c.op = <<"=">> THEN val = ps[1]
    ELSE IF c.op = <<"<">> THEN Less(val, ps[1])
    ELSE IF c.op = <<"<", "=">> THEN Less(val, ps[1]) \/ val = ps[1]
    ELSE IF c.op = <<">">> THEN Less(ps[1], val)
    ELSE IF c.op = <<">", "=">> THEN Less(ps[1], val) \/ val = ps[1]
    ELSE IF c.op = KW.like
    THEN ps[1].t \in {"str", "int"} /\ Like(PyStr(ps[1]), PyStr(val), c.esc, k # "postgres")
    ELSE \E q \in 1..Len(ps) : val = ps[q]

(* Whether a row satisfies clauses j.. whose placeholders start after off.  *)
RECURSIVE RowMatches(_, _, _, _, _, _)
RowMatches(k, row, clauses, j, params, off) ==
    IF j > Len(clauses) THEN TRUE
    ELSE Holds(k, clauses[j], row[clauses[j].col],
               SubSeq(params, off + 1, off + clauses[j].n))
         /\ RowMatches(k, row, clauses, j + 1, params, off + clauses[j].n)

RECURSIVE Placeholders(_)
Placeholders(clauses) ==
    IF clauses = <<>> THEN 0 ELSE Head(clauses).n + Placeholders(Tail(clauses))

IndexOf(seq, x) == CHOOSE i \in 1..Len(seq) : seq[i] = x
Range(seq) == {seq[i] : i \in 1..Len(seq)}

Ids(rows) == {rows[i][<<"i", "d">>].n : i \in 1..Len(rows)}
(* The id the table generates for a row inserted without one.  T.seq is the *)
(* table's counter: a Postgres sequence moves only when it generates an id, *)
(* AUTOINCREMENT and AUTO_INCREMENT also follow the ids rows are given.     *)
NextId(k, T) ==
    IF k = "postgres" THEN T.seq + 1
    ELSE 1 + CHOOSE m \in Ids(T.rows) \cup {T.seq} : \A x \in Ids(T.rows) \cup {T.seq} : x <= m

(* The counter of T once the row with this id went in.                      *)
NextSeq(k, T, st, id) ==
    IF ~T.key \/ id.t # "int" THEN T.seq
    ELSE IF <<"i", "d">> \in Range(st.cols) /\ (k = "postgres" \/ id.n < T.seq) THEN T.seq
    ELSE id.n
DistinctIds(rows) == \A i, j \in 1..Len(rows) : i # j => rows[i][<<"i", "d">>] # rows[j][<<"i", "d">>]

Cursor(d, rowcount, rows, description) ==
    [ok |-> TRUE, db |-> d, rowcount |-> rowcount, rows |-> rows, description |-> description]

Failure(d) ==
    [ok |-> FALSE, db |-> d, rowcount |-> -1, rows |-> <<>>, description |-> <<>>]

NamesOf(T) == [i \in 1..Len(T.cols) |-> <<StrV(T.cols[i])>>]

Tuples(rows, cols) == [i \in 1..Len(rows) |-> [j \in 1..Len(cols) |-> rows[i][cols[j]]]]

Inserted(k, T, st, params) ==
    Append(T.rows,
           [c \in Range(T.cols) |->
              IF c \in Range(st.cols) THEN params[IndexOf(st.cols, c)]
              ELSE IF T.key /\ c = <<"i", "d">> THEN IntV(NextId(k, T))
              ELSE NoneV])

Updated(k, T, st, params) ==
    [i \in 1..Len(T.rows) |->
       IF RowMatches(k, T.rows[i], st.where, 1, params, st.n)
       THEN [c \in DOMAIN T.rows[i] |->
               IF c \in Range(st.cols) THEN params[IndexOf(st.cols, c)] ELSE T.rows[i][c]]
       ELSE T.rows[i]]

Matched(k, T, st, params) ==
    {i \in 1..Len(T.rows) : RowMatches(k, T.rows[i], st.where, 1, params, st.n)}

Changed(T, rows) == {i \in 1..Len(T.rows) : rows[i] # T.rows[i]}

Altered(T, c) ==
    [T EXCEPT !.cols = Append(@, c),
              !.rows = [i \in 1..Len(@) |->
                          [x \in Range(T.cols) \cup {c} |->
                             IF x \in Range(T.cols) THEN @[i][x] ELSE NoneV]]]

(* A write that no key refuses.                                             *)
WrittenUnchecked(d, t, rows, rowcount) ==
    Cursor([d EXCEPT ![t].rows = rows], rowcount, <<>>, <<>>)

(* A write of rows to table t of d, refused when it breaks the key.         *)
Written(d, t, rows, rowcount) ==
    IF d[t].key /\ ~DistinctIds(rows) THEN Failure(d)
    ELSE Cursor([d EXCEPT ![t].rows = rows], rowcount, <<>>, <<>>)

(* Statement st on table T = d[st.table], which exists.                     *)
OnTable(k, d, st, T, params) ==
    IF st.verb = "desc"
    THEN IF k # "mysql" THEN Failure(d) ELSE Cursor(d, Len(T.cols), NamesOf(T), <<>>)
    ELSE IF st.verb = "select_star"
    THEN Cursor(d, -1, Tuples(T.rows, T.cols), T.cols)
    ELSE IF st.verb = "alter"
    THEN IF st.cols[1] \in Range(T.cols) THEN Failure(d)
         ELSE Cursor([d EXCEPT ![st.table] = Altered(T, st.cols[1])], -1, <<>>, <<>>)
    ELSE IF ~(Range(st.cols) \subseteq Range(T.cols)
              /\ {st.where[i].col : i \in 1..Len(st.where)} \subseteq Range(T.cols))
    THEN Failure(d)
    ELSE IF st.verb = "select"
    THEN IF st.cols = <<>> /\ k # "postgres" THEN Failure(d)
         ELSE Cursor(d, -1,
                     Tuples(SelectSeq(T.rows,
                                      LAMBDA row : RowMatches(k, row, st.where, 1, params, st.n)),
                            st.cols),
                     st.cols)
    ELSE IF st.verb = "insert"
    THEN Written([d EXCEPT ![st.table].seq =
                       NextSeq(k, T, st,
                               Inserted(k, T, st, params)[Len(T.rows) + 1][<<"i", "d">>])],
                 st.table, Inserted(k, T, st, params), 1)
    ELSE IF st.verb = "update"
    THEN Written(d, st.table, Updated(k, T, st, params),
                 IF k = "mysql" THEN Cardinality(Changed(T, Updated(k, T, st, params)))
                 ELSE Cardinality(Matched(k, T, st, params)))
    ELSE IF st.verb = "delete"
    THEN Cursor([d EXCEPT ![st.table].rows =
                    SelectSeq(T.rows,
                              LAMBDA row : ~RowMatches(k, row, st.where, 1, params, st.n))],
                Cardinality(Matched(k, T, st, params)), <<>>, <<>>)
    ELSE Failure(d)

(* Statement st with its parameters on database d.                          *)
Statement(k, d, st, params) ==
    IF st.verb = "error"
       \/ (IF st.verb \in {"insert", "update"} THEN st.n ELSE 0) + Placeholders(st.where)
            # Len(params)
       \/ (\E i \in 1..Len(params) : params[i].t = "list")
    THEN Failure(d)
    ELSE IF st.verb = "catalog"
    THEN IF k # "postgres" THEN Failure(d)
         ELSE IF st.table \notin DOMAIN d THEN Cursor(d, 0, <<>>, <<>>)
         ELSE Cursor(d, Len(d[st.table].cols), NamesOf(d[st.table]), <<>>)
    ELSE IF st.table \notin DOMAIN d THEN Failure(d)
    ELSE OnTable(k, d, st, d[st.table], params)

(* cursor.execute(query, params) on database d.                             *)
Execute(k, d, query, params) == Statement(k, d, Parse(query, BINDING_OP(k)), params)

-----------------------------------------------------------------------------
(* The adapter.  self is [db, committed, connection, _tables, log,          *)
(* introspections]; each method returns the new self, what it raised ("" if *)
(* nothing) and its result.                                                 *)
s_id == <<"i", "d">>
s_name == <<"n", "a", "m", "e">>
s_age == <<"a", "g", "e">>
s_people == <<"p", "e", "o", "p", "l", "e">>
s_log == <<"l", "o", "g">>
s_missing == <<"m", "i", "s", "s", "i", "n", "g">>

(* What of the database d outlives a rollback to c: the committed tables,  *)
(* and on Postgres and MySQL the counters of d, which live outside the      *)
(* transaction; SQLite keeps its counters in a table and takes them back.   *)
Durable(k, c, d) ==
    [t \in DOMAIN c |->
        IF k = "sqlite" \/ t \notin DOMAIN d THEN c[t]
        ELSE [c[t] EXCEPT !.seq = d[t].seq]]

(* A raw that raises what the driver raised without rolling back.           *)
ExecutedNoRollback(k, self, commit, r) ==
    IF ~r.ok
    THEN [self |-> [self EXCEPT !.log = @ \o <<"cursor", "execute!">>],
          raised |-> "DriverError", cursor |-> r]
    ELSE IF commit /\ self.commit_fails
    THEN [self |-> [self EXCEPT !.db = r.db, !.log = @ \o <<"cursor", "execute", "commit!">>],
          raised |-> "CommitError", cursor |-> Failure(r.db)]
    ELSE [self |-> [self EXCEPT
                      !.db = r.db,
                      !.committed = IF commit THEN r.db ELSE @,
                      !.log = @ \o (IF commit THEN <<"cursor", "execute", "commit">>
                                    ELSE <<"cursor", "execute">>)],
          raised |-> "", cursor |-> r]

(* The try block of raw once cursor.execute returned or raised r: commit   *)
(* if asked to, roll back and raise again if execute or commit raised.  A   *)
(* driver call that raised is logged with a "!", and commit raises          *)
(* ("CommitError") when self.commit_fails says the driver will refuse it.   *)
Executed(k, self, commit, r) ==
    IF ~r.ok
    THEN [self |-> [self EXCEPT
                      !.db = Durable(k, self.committed, r.db),
                      !.committed = Durable(k, self.committed, r.db),
                      !.log = @ \o <<"cursor", "execute!", "rollback">>],
          raised |-> "DriverError", cursor |-> r]
    ELSE IF commit /\ self.commit_fails
    THEN [self |-> [self EXCEPT
                      !.db = Durable(k, self.committed, r.db),
                      !.committed = Durable(k, self.committed, r.db),
                      !.log = @ \o <<"cursor", "execute", "commit!", "rollback">>],
          raised |-> "CommitError", cursor |-> Failure(self.committed)]
    ELSE [self |-> [self EXCEPT
                      !.db = r.db,
                      !.committed = IF commit THEN r.db ELSE Durable(k, @, r.db),
                      !.log = @ \o (IF commit THEN <<"cursor", "execute", "commit">>
                                    ELSE <<"cursor", "execute">>)],
          raised |-> "", cursor |-> r]

(* BaseSQLAdapter.raw and SQLiteAdapter.raw (which differ only in which     *)
(* cursor object they return).  connection.cursor() raises on a closed      *)
(* connection, before the try block.                                        *)
raw(k, self, query, params, commit) ==
    IF self.connection = "closed"
    THEN [self |-> [self EXCEPT !.log = Append(@, "cursor!")],
          raised |-> "DriverError", cursor |-> Failure(self.db)]
    ELSE Executed(k, self, commit, Execute(k, self.db, query, params))

(* bool(cursor): the drivers' cursor classes define neither __len__ nor     *)
(* __nonzero__, so a cursor object is always true.                          *)
Truthy(cursor) == TRUE

Put(f, x, v) == [y \in DOMAIN f \cup {x} |-> IF y = x THEN v ELSE f[y]]

(* The introspection query of each adapter and whether it is committed.     *)
IntrospectionQuery(k, table) ==
    IF k = "sqlite" THEN Text.select_star \o table
    ELSE IF k = "postgres" THEN Text.catalog \o table
    ELSE Text.desc \o table \o <<";">>

IntrospectionCommits(k) == k = "sqlite"

(* The column names read from the cursor r.cursor of the introspection.     *)
ColumnsOf(k, cursor) ==
    IF k = "sqlite" THEN sorted(cursor.description)
    ELSE sorted([i \in 1..Len(cursor.rows) |-> cursor.rows[i][1].s])

(* The cache miss of _get_column_names once raw returned or raised r.       *)
Introspected(k, table, r) ==
    IF r.raised # "" THEN [self |-> r.self, raised |-> r.raised, names |-> <<>>]
    ELSE IF k # "sqlite" /\ ~Truthy(r.cursor)
    THEN [self |-> r.self, raised |-> "QueryError", names |-> <<>>]
    ELSE [self |-> [r.self EXCEPT !._tables = Put(@, table, ColumnsOf(k, r.cursor))],
          raised |-> "", names |-> ColumnsOf(k, r.cursor)]

(* A column lookup that never consults the cache.                           *)
_get_column_names_uncached(k, self, table) ==
    Introspected(k, table,
                 raw(k, [self EXCEPT !.introspections[table] = @ + 1],
                     IntrospectionQuery(k, table), <<>>, IntrospectionCommits(k)))

(* SQLiteAdapter / PostgresAdapter / MySQLAdapter._get_column_names         *)
_get_column_names(k, self, table) ==
    IF table \in DOMAIN self._tables
    THEN [self |-> self, raised |-> "", names |-> self._tables[table]]
    ELSE Introspected(k, table,
                      raw(k, [self EXCEPT !.introspections[table] = @ + 1],
                          IntrospectionQuery(k, table), <<>>, IntrospectionCommits(k)))

(* A select that asks for the columns in the order the table declares them. *)
SelectQueryStar(table, kwargs, c, w) ==
    IF c.raised # ""
    THEN [self |-> c.self, raised |-> c.raised, query |-> <<>>, values |-> <<>>]
    ELSE [self |-> c.self, raised |-> "", query |-> Text.select_star \o table, values |-> <<>>]

(* A select that leaves the where clause out.                               *)
SelectQueryBare(table, kwargs, c, w) ==
    IF c.raised # ""
    THEN [self |-> c.self, raised |-> c.raised, query |-> <<>>, values |-> <<>>]
    ELSE IF w.status # "ok"
    THEN [self |-> c.self, raised |-> w.status, query |-> <<>>, values |-> <<>>]
    ELSE [self |-> c.self, raised |-> "",
          query |-> Text.select \o join(Text.comma, c.names) \o Text.from \o table,
          values |-> w.values]

(* _build_select_query once _get_column_names returned or raised c and     *)
(* _build_where_clause returned or raised w.                                *)
SelectQuery(table, kwargs, c, w) ==
    IF c.raised # ""
    THEN [self |-> c.self, raised |-> c.raised, query |-> <<>>, values |-> <<>>]
    ELSE IF w.status # "ok"
    THEN [self |-> c.self, raised |-> w.status, query |-> <<>>, values |-> <<>>]
    ELSE [self |-> c.self, raised |-> "",
          query |-> Text.select \o join(Text.comma, c.names) \o Text.from \o table
                      \o (IF Len(kwargs) # 0 THEN <<" ">> \o w.query ELSE <<>>),
          values |-> w.values]

_build_select_query(k, self, table, kwargs) ==
    SelectQuery(table, kwargs, _get_column_names(k, self, table),
                _build_where_clause(k, kwargs))

(* The row_info dict find builds from one fetched row.                      *)
RowInfo(column_names, row) ==
    [c \in {column_names[i] : i \in 1..Len(row)} |->
        row[CHOOSE i \in 1..Len(row) :
              column_names[i] = c /\ \A j \in 1..Len(row) : column_names[j] = c => j <= i]]

Result(self, raised, query, values, rowcount, flag, rows) ==
    [self |-> self, raised |-> raised, query |-> query, values |-> values,
     rowcount |-> rowcount, flag |-> flag, rows |-> rows]

(* result.rowcount >= 1                                                     *)
RowcountAtLeastOne(rowcount) == IF rowcount >= 1 THEN "True" ELSE "False"

(* result.rowcount == 1                                                     *)
RowcountIsOne(rowcount) == IF rowcount = 1 THEN "True" ELSE "False"

(* add, update and delete once raw(query, params=values) returned or raised *)
(* r for the compiled statement q.                                          *)
Ran(q, r) ==
    IF r.raised # "" THEN Result(r.self, r.raised, q.query, q.values, -1, "", <<>>)
    ELSE Result(r.self, "", q.query, q.values, r.cursor.rowcount,
                RowcountIsOne(r.cursor.rowcount), <<>>)

(* A run of a compiled statement that leaves the commit out.                *)
RunUncommitted(k, self, q) == Ran(q, raw(k, self, q.query, q.values, FALSE))

Run(k, self, q) == Ran(q, raw(k, self, q.query, q.values, TRUE))

(* An add that hands an empty mapping to the insert compiler.               *)
add_unchecked(k, self, table, kwargs) == Run(k, self, _build_insert_query(k, table, kwargs))

add(k, self, table, kwargs) ==
    IF Len(kwargs) = 0 THEN Result(self, "QueryError", <<>>, <<>>, -1, "", <<>>)
    ELSE Run(k, self, _build_insert_query(k, table, kwargs))

update(k, self, table, pk, kwargs) == Run(k, self, _build_update_query(k, table, pk, kwargs))

delete(k, self, table, pk) == Run(k, self, _build_delete_query(k, table, pk))

(* The loop of find over the rows fetched from r, with c what the second    *)
(* _get_column_names returned or raised.                                    *)
Zipped(q, r, c) ==
    IF c.raised # "" THEN Result(c.self, c.raised, q.query, q.values, -1, "", <<>>)
    ELSE IF \E i \in 1..Len(r.cursor.rows) : Len(r.cursor.rows[i]) > Len(c.names)
    THEN Result(c.self, "IndexError", q.query, q.values, -1, "", <<>>)
    ELSE Result(c.self, "", q.query, q.values, r.cursor.rowcount, "",
                [i \in 1..Len(r.cursor.rows) |-> RowInfo(c.names, r.cursor.rows[i])])

(* find once raw(query, params=values, commit=False) returned or raised r.  *)
Fetched(k, table, q, r) ==
    IF r.raised # "" THEN Result(r.self, r.raised, q.query, q.values, -1, "", <<>>)
    ELSE Zipped(q, r, _get_column_names(k, r.self, table))

(* find once _build_select_query returned or raised q.                      *)
Selected(k, table, q) ==
    IF q.raised # "" THEN Result(q.self, q.raised, <<>>, <<>>, -1, "", <<>>)
    ELSE Fetched(k, table, q, raw(k, q.self, q.query, q.values, FALSE))

find(k, self, table, kwargs) ==
    Selected(k, table, _build_select_query(k, self, table, kwargs))

(* A get that hands back the last of the results.                           *)
Last(results) ==
    IF results.raised # "" THEN results
    ELSE IF Len(results.rows) = 0 THEN [results EXCEPT !.flag = "None"]
    ELSE [results EXCEPT !.rows = <<results.rows[Len(results.rows)]>>]

(* Bitty.get once find returned or raised results: the first of them, or    *)
(* None (flag "None").                                                      *)
First(results) ==
    IF results.raised # "" THEN results
    ELSE IF Len(results.rows) = 0 THEN [results EXCEPT !.flag = "None"]
    ELSE [results EXCEPT !.rows = <<results.rows[1]>>]

get(k, self, table, kwargs) == First(find(k, self, table, kwargs))

(* Bitty.raw hands the cursor back; the call records its row count.         *)
RawResult(query, params, r) ==
    Result(r.self, r.raised, query, params, r.cursor.rowcount, "", <<>>)

close(k, self, commit) ==
    IF self.connection = "closed"
    THEN Result([self EXCEPT !.log = Append(@, IF commit THEN "commit!" ELSE "close")],
                IF commit THEN "DriverError" ELSE "", <<>>, <<>>, -1, "", <<>>)
    ELSE Result([self EXCEPT !.committed = IF commit THEN self.db ELSE @,
                             !.db = IF commit THEN @ ELSE self.committed,
                             !.connection = "closed",
                             !.log = @ \o (IF commit THEN <<"commit", "close">>
                                           ELSE <<"close">>)],
                "", <<>>, <<>>, -1, "", <<>>)

-----------------------------------------------------------------------------
(* Bounds and inputs.                                                       *)
MaxFilters == 2          \* filter keys in one compiled filter expression
MaxFields == 3           \* fields in one compiled insert or update
MaxCalls == 3            \* calls made on one facade

s_text == <<"t", "e", "x", "t">>
s_Dan == <<"D", "a", "n">>
s_Daniel == <<"D", "a", "n", "i", "e", "l">>
s_foo == <<"f", "o", "o">>
s_100 == <<"1", "0", "0">>

(* The filter keys.                                                         *)
Key ==
    [
     age__lt |-> <<"a", "g", "e", "_", "_", "l", "t">>,
     age__lte |-> <<"a", "g", "e", "_", "_", "l", "t", "e">>,
     id__gt |-> <<"i", "d", "_", "_", "g", "t">>,
     id__gte |-> <<"i", "d", "_", "_", "g", "t", "e">>,
     name__startswith |-> <<"n", "a", "m", "e", "_", "_", "s", "t", "a", "r", "t", "s", "w", "i", "t", "h">>,
     name__endswith |-> <<"n", "a", "m", "e", "_", "_", "e", "n", "d", "s", "w", "i", "t", "h">>,
     name__contains |-> <<"n", "a", "m", "e", "_", "_", "c", "o", "n", "t", "a", "i", "n", "s">>,
     id__in |-> <<"i", "d", "_", "_", "i", "n">>,
     name__foo |-> <<"n", "a", "m", "e", "_", "_", "f", "o", "o">>,
     name__ |-> <<"n", "a", "m", "e", "_", "_">>,
     x__y__z |-> <<"x", "_", "_", "y", "_", "_", "z">>,
     a__b__c |-> <<"a", "_", "_", "b", "_", "_", "c">>
    ]

(* Keyword mappings: every order of up to n pairs of pool with distinct     *)
(* names.                                                                   *)
Mappings(pool, n) ==
    UNION {{m \in [1..len -> pool] : \A i, j \in 1..len : i # j => m[i][1] # m[j][1]}
           : len \in 0..n}

FilterPool ==
    {<<s_id, IntV(1)>>, <<s_name, StrV(s_Dan)>>,
     <<Key.age__lt, IntV(30)>>, <<Key.age__lte, IntV(30)>>,
     <<Key.id__gt, IntV(1)>>, <<Key.id__gte, IntV(1)>>,
     <<Key.name__startswith, StrV(s_Dan)>>, <<Key.name__startswith, IntV(7)>>,
     <<Key.name__endswith, StrV(s_Dan)>>, <<Key.name__contains, StrV(s_Dan)>>,
     <<Key.id__in, ListV(<<IntV(1), IntV(2), IntV(10)>>)>>, <<Key.id__in, ListV(<<>>)>>,
     <<Key.id__in, IntV(5)>>,
     <<Key.name__foo, StrV(s_Dan)>>, <<Key.name__, StrV(s_Dan)>>, <<Key.a__b__c, IntV(1)>>,
     <<Key.x__y__z, IntV(1)>>}

FieldPool ==
    {<<s_id, IntV(1)>>, <<s_name, StrV(s_Daniel)>>, <<s_age, IntV(27)>>,
     <<s_text, StrV(s_foo)>>}

FilterInputs == Mappings(FilterPool, MaxFilters)
FieldInputs == Mappings(FieldPool, MaxFields)
CompileTables == {s_people, <<"t", "e", "s", "t">>}
CompilePks == {IntV(1), IntV(10), StrV(s_100)}

(* The calls made on the facade.                                            *)
TableNames == {s_people, s_log, s_missing}
Args(table, pk, kwargs) == [table |-> table, pk |-> pk, kwargs |-> kwargs]
f_id(n) == <<s_id, IntV(n)>>
f_name == <<s_name, StrV(s_Dan)>>

AddCalls ==
    {Args(s_people, NoneV, kw) : kw \in {<<>>, <<f_name>>, <<f_name, f_id(1)>>}}
    \cup {Args(s_missing, NoneV, <<f_name>>)}
UpdateCalls ==
    {Args(s_people, IntV(1), <<f_name>>), Args(s_people, IntV(10), <<f_name>>),
     Args(s_log, IntV(1), <<f_name>>), Args(s_people, IntV(1), <<>>)}
DeleteCalls ==
    {Args(s_people, IntV(1), <<>>), Args(s_people, IntV(10), <<>>),
     Args(s_log, IntV(1), <<>>)}
FindCalls ==
    {Args(s_people, NoneV, kw) :
        kw \in {<<>>, <<f_id(1)>>, <<f_id(10)>>,
                <<<<Key.name__startswith, StrV(s_Dan)>>, <<Key.id__gte, IntV(1)>>>>}}
    \cup {Args(s_log, NoneV, <<>>), Args(s_missing, NoneV, <<>>)}
GetCalls ==
    {Args(s_people, NoneV, <<f_id(1)>>), Args(s_people, NoneV, <<f_id(10)>>),
     Args(s_log, NoneV, <<>>)}
q_delete_log == <<"D", "E", "L", "E", "T", "E", " ", "F", "R", "O", "M", " ", "l", "o", "g">>
q_alter ==
    <<"A", "L", "T", "E", "R", " ", "T", "A", "B", "L", "E", " ", "p", "e", "o", "p", "l",
      "e", " ", "A", "D", "D", " ", "C", "O", "L", "U", "M", "N", " ", "z", "i", "p">>
q_bogus == <<"B", "O", "G", "U", "S">>
(* <<query, params, commit, whether the driver refuses the commit>>; one    *)
(* call leaves an insert into people uncommitted.                           *)
RawCalls(k) ==
    {<<q_delete_log, <<>>, TRUE, FALSE>>, <<q_alter, <<>>, TRUE, FALSE>>,
     <<q_bogus, <<>>, TRUE, FALSE>>, <<q_delete_log, <<>>, TRUE, TRUE>>,
     <<_build_insert_query(k, s_people, <<f_name>>).query, <<StrV(s_Dan)>>, FALSE, FALSE>>}

(* The database the facade is opened on.                                    *)
Row(id, name, age) ==
    (s_id :> id) @@ (s_name :> name) @@ (s_age :> age)

InitDB ==
    (s_people :> [cols |-> <<s_id, s_name, s_age>>, key |-> TRUE, seq |-> 1,
                  rows |-> <<Row(IntV(1), StrV(s_Daniel), IntV(27))>>])
    @@ (s_log :> [cols |-> <<s_name, s_id>>, key |-> FALSE, seq |-> 0,
                  rows |-> <<(s_id :> IntV(1)) @@ (s_name :> StrV(s_foo)),
                             (s_id :> IntV(1)) @@ (s_name :> StrV(s_Dan))>>])

-----------------------------------------------------------------------------
(* The state machine.                                                       *)
Self ==
    [db |-> db, committed |-> committed, connection |-> connection, _tables |-> _tables,
     log |-> <<>>, introspections |-> introspections, commit_fails |-> FALSE]

(* Bitty.__init__ on the descriptor of a database whose committed tables   *)
(* are d: a new adapter with a connection of its own and no columns         *)
(* registered.                                                              *)
Bitty(d) ==
    [db |-> d, committed |-> d, connection |-> "open", _tables |-> <<>>,
     log |-> <<>>, introspections |-> [t \in TableNames |-> 0], commit_fails |-> FALSE]

Call(op, table, pk, kwargs, commit, status, query, values, rowcount, flag, rows) ==
    [op |-> op, table |-> table, pk |-> pk, kwargs |-> kwargs, commit |-> commit,
     status |-> status, query |-> query, values |-> values, rowcount |-> rowcount,
     flag |-> flag, rows |-> rows]

(* The state after a method of the adapter returned or raised res.          *)
Returns(op, a, commit, res) ==
    /\ calls < MaxCalls
    /\ calls' = calls + 1
    /\ db' = res.self.db
    /\ committed' = res.self.committed
    /\ connection' = res.self.connection
    /\ _tables' = res.self._tables
    /\ log' = res.self.log
    /\ introspections' = res.self.introspections
    /\ kind' = kind
    /\ ret' = Call(op, a.table, a.pk, a.kwargs, commit,
                   IF res.raised = "" THEN "ok" ELSE res.raised,
                   res.query, res.values, res.rowcount, res.flag, res.rows)

(* The state after a compiler returned or raised c: nothing but ret moves.  *)
(* A compiler reads no state of the adapter, so one call on a new adapter   *)
(* is every call.                                                           *)
Compiles(op, table, pk, kwargs, c) ==
    /\ ret.op = ""
    /\ ret' = Call(op, table, pk, kwargs, FALSE, c.status, c.query, c.values, -1, "", <<>>)
    /\ UNCHANGED <<kind, connection, _tables, db, committed, log, introspections, calls>>

Init ==
    /\ kind \in Kinds
    /\ connection = "open"
    /\ _tables = <<>>
    /\ db = InitDB
    /\ committed = InitDB
    /\ log = <<>>
    /\ introspections = [t \in TableNames |-> 0]
    /\ calls = 0
    /\ ret = Call("", <<>>, NoneV, <<>>, FALSE, "", <<>>, <<>>, -1, "", <<>>)

Add ==
    \E a \in AddCalls :
        Returns("add", a, TRUE, add(kind, Self, a.table, a.kwargs))

Update ==
    \E a \in UpdateCalls :
        Returns("update", a, TRUE, update(kind, Self, a.table, a.pk, a.kwargs))

Delete ==
    \E a \in DeleteCalls :
        Returns("delete", a, TRUE, delete(kind, Self, a.table, a.pk))

Find ==
    \E a \in FindCalls :
        Returns("find", a, FALSE, find(kind, Self, a.table, a.kwargs))

GetRecord ==
    \E a \in GetCalls :
        Returns("get", a, FALSE, get(kind, Self, a.table, a.kwargs))

Raw ==
    \E c \in RawCalls(kind) :
        Returns("raw", Args(<<>>, NoneV, <<>>), c[3],
                RawResult(c[1], c[2],
                          raw(kind, [Self EXCEPT !.commit_fails = c[4]], c[1], c[2], c[3])))

Close ==
    \E commit \in BOOLEAN :
        Returns("close", Args(<<>>, NoneV, <<>>), commit, close(kind, Self, commit))

Next == Add \/ Update \/ Delete \/ Find \/ GetRecord \/ Raw \/ Close

Spec == Init /\ [][Next]_vars

(* The compilers called on their own, as the unit tests call them.          *)
BuildInsert ==
    \E table \in CompileTables, kwargs \in FieldInputs :
        Compiles("_build_insert_query", table, NoneV, kwargs,
                 _build_insert_query(kind, table, kwargs))

BuildUpdate ==
    \E table \in CompileTables, pk \in CompilePks, kwargs \in FieldInputs :
        Compiles("_build_update_query", table, pk, kwargs,
                 _build_update_query(kind, table, pk, kwargs))

BuildDelete ==
    \E table \in CompileTables, pk \in CompilePks :
        Compiles("_build_delete_query", table, pk, <<>>,
                 _build_delete_query(kind, table, pk))

BuildWhere ==
    \E kwargs \in FilterInputs :
        Compiles("_build_where_clause", <<>>, NoneV, kwargs,
                 _build_where_clause(kind, kwargs))

(* The select compiler called on its own on a new adapter: it looks the     *)
(* columns of the table up, so the adapter's registry, log and connection   *)
(* move with it.                                                            *)
Selects(table, kwargs, q) ==
    /\ ret.op = ""
    /\ ret' = Call("_build_select_query", table, NoneV, kwargs, FALSE,
                   IF q.raised = "" THEN "ok" ELSE q.raised, q.query, q.values, -1, "", <<>>)
    /\ db' = q.self.db
    /\ committed' = q.self.committed
    /\ _tables' = q.self._tables
    /\ log' = q.self.log
    /\ introspections' = q.self.introspections
    /\ UNCHANGED <<kind, connection, calls>>

BuildSelect ==
    \E table \in DOMAIN db, kwargs \in FilterInputs :
        Selects(table, kwargs, _build_select_query(kind, Self, table, kwargs))

NextCompile == BuildInsert \/ BuildUpdate \/ BuildDelete \/ BuildWhere \/ BuildSelect

SpecCompile == Init /\ [][NextCompile]_vars

(* add and the insert compiler side by side.                                *)
NextAdd == Add \/ BuildInsert

SpecAdd == Init /\ [][NextAdd]_vars

-----------------------------------------------------------------------------
(* Opening a facade: Bitty.get_adapter and the adapters' get_connection.    *)

(* The classes of the two patterns on ASCII text: \w, [\w\d_.-] and \d.     *)
Chars ==
    [word |->
        {"a", "b", "c", "d", "e", "f", "g", "h", "i", "j", "k", "l", "m", "n", "o", "p", "q", "r", "s", "t", "u", "v", "w", "x", "y", "z"}
        \cup {"A", "B", "C", "D", "E", "F", "G", "H", "I", "J", "K", "L", "M", "N", "O", "P", "Q", "R", "S", "T", "U", "V", "W", "X", "Y", "Z"}
        \cup {"0", "1", "2", "3", "4", "5", "6", "7", "8", "9", "_"},
     user |->
        {"a", "b", "c", "d", "e", "f", "g", "h", "i", "j", "k", "l", "m", "n", "o", "p", "q", "r", "s", "t", "u", "v", "w", "x", "y", "z"}
        \cup {"A", "B", "C", "D", "E", "F", "G", "H", "I", "J", "K", "L", "M", "N", "O", "P", "Q", "R", "S", "T", "U", "V", "W", "X", "Y", "Z"}
        \cup {"0", "1", "2", "3", "4", "5", "6", "7", "8", "9", "_"}
        \cup {".", "-"},
     digit |-> {"0", "1", "2", "3", "4", "5", "6", "7", "8", "9"}]

(* The index of the first c in s at or after from, 0 if there is none.      *)
FirstAt(s, c, from) ==
    IF \E i \in from..Len(s) : s[i] = c
    THEN CHOOSE i \in from..Len(s) : s[i] = c /\ \A j \in from..(i - 1) : s[j] # c
    ELSE 0

(* s[a..b] is text that [cs]* matches.                                      *)
AllIn(s, a, b, cs) == \A i \in a..b : s[i] \in cs

(* s[a..b] is text that .* matches: no line break in it.                    *)
Dots(s, a, b) == \A i \in a..b : s[i] # "\n"

(* Where $ matches in s: at the end, or before a line break that ends s.    *)
End(s) == IF Len(s) > 0 /\ s[Len(s)] = "\n" THEN Len(s) - 1 ELSE Len(s)

(* ^(?P<adapter>\w+):// matches s with the colon at c.  No \w is a colon,   *)
(* so the colon is the first one of s.                                      *)
Scheme(s, c) ==
    /\ c > 1
    /\ AllIn(s, 1, c - 1, Chars.word)
    /\ Len(s) >= c + 2
    /\ s[c + 1] = "/"
    /\ s[c + 2] = "/"

(* FILESYSTEM_DSN.match(dsn): <<>> for None, else the groupdict in a        *)
(* sequence.                                                                *)
FILESYSTEM_DSN(dsn) ==
    IF Scheme(dsn, FirstAt(dsn, ":", 1)) /\ Dots(dsn, FirstAt(dsn, ":", 1) + 3, End(dsn))
    THEN <<[adapter |-> SubSeq(dsn, 1, FirstAt(dsn, ":", 1) - 1),
            path |-> SubSeq(dsn, FirstAt(dsn, ":", 1) + 3, End(dsn))]>>
    ELSE <<>>

(* The colons of dsn after index a at which (?P<host>.*?):(?P<port>\d*?)/   *)
(* (?P<database>.*?)$ can split it; the port ends at the first slash after  *)
(* the colon.                                                               *)
HostEnds(dsn, a) ==
    {h \in (a + 1)..End(dsn) :
        /\ dsn[h] = ":"
        /\ Dots(dsn, a + 1, h - 1)
        /\ FirstAt(dsn, "/", h + 1) # 0
        /\ FirstAt(dsn, "/", h + 1) <= End(dsn)
        /\ AllIn(dsn, h + 1, FirstAt(dsn, "/", h + 1) - 1, Chars.digit)
        /\ Dots(dsn, FirstAt(dsn, "/", h + 1) + 1, End(dsn))}

(* The groupdict of DAEMON_DSN for the colon c of the scheme, the colon u   *)
(* after the user, the a of the "@" and the colon h after the host.         *)
DaemonGroups(dsn, c, u, a, h) ==
    [adapter |-> SubSeq(dsn, 1, c - 1),
     user |-> SubSeq(dsn, c + 3, u - 1),
     password |-> SubSeq(dsn, u + 1, a - 1),
     host |-> SubSeq(dsn, a + 1, h - 1),
     port |-> SubSeq(dsn, h + 1, FirstAt(dsn, "/", h + 1) - 1),
     database |-> SubSeq(dsn, FirstAt(dsn, "/", h + 1) + 1, End(dsn))]

(* DAEMON_DSN.match(dsn) for the colon c of the scheme and the colon u      *)
(* after the user: user and password hold neither ":" nor "@", so they end  *)
(* at the first of each; the host is lazy and ends at the first colon that  *)
(* lets the rest match.                                                     *)
DaemonMatch(dsn, c, u, a) ==
    IF /\ Scheme(dsn, c)
       /\ u > c + 3
       /\ AllIn(dsn, c + 3, u - 1, Chars.user)
       /\ a > u
       /\ AllIn(dsn, u + 1, a - 1, Chars.user)
       /\ HostEnds(dsn, a) # {}
    THEN <<DaemonGroups(dsn, c, u, a,
                        CHOOSE h \in HostEnds(dsn, a) : \A x \in HostEnds(dsn, a) : h <= x)>>
    ELSE <<>>

(* DAEMON_DSN.match(dsn): <<>> for None, else the groupdict in a sequence.  *)
DAEMON_DSN(dsn) ==
    IF FirstAt(dsn, ":", 1) = 0 \/ FirstAt(dsn, ":", FirstAt(dsn, ":", 1) + 3) = 0
    THEN <<>>
    ELSE DaemonMatch(dsn, FirstAt(dsn, ":", 1), FirstAt(dsn, ":", FirstAt(dsn, ":", 1) + 3),
                     FirstAt(dsn, "@", FirstAt(dsn, ":", FirstAt(dsn, ":", 1) + 3) + 1))

(* Bitty.ADAPTERS: the names and the adapter each one stands for.           *)
ADAPTERS ==
    (<<"s", "q", "l", "i", "t", "e">> :> "sqlite")
    @@ (<<"m", "y", "s", "q", "l">> :> "mysql")
    @@ (<<"p", "o", "s", "t", "g", "r", "e", "s">> :> "postgres")

(* dsn.startswith(name)                                                     *)
startswith(dsn, name) == Len(dsn) >= Len(name) /\ SubSeq(dsn, 1, Len(name)) = name

(* What the constructor of the adapter k does with dsn: get_connection      *)
(* raises InvalidDSN when its pattern does not match, and hands the groups  *)
(* to the driver's connect otherwise; connected says whether the driver     *)
(* opened the connection or raised.                                         *)
get_connection(k, dsn, match, connected) ==
    IF match = <<>>
    THEN [raised |-> "InvalidDSN", adapter |-> k, details |-> <<>>, log |-> <<>>]
    ELSE IF connected
    THEN [raised |-> "", adapter |-> k, details |-> match, log |-> <<"connect">>]
    ELSE [raised |-> "DriverError", adapter |-> k, details |-> match, log |-> <<"connect!">>]

(* Bitty.get_adapter(dsn) once the loop over ADAPTERS found names: the last *)
(* name found is the only one, no name being the start of another.          *)
Adapted(dsn, names, connected) ==
    IF names = {}
    THEN [raised |-> "InvalidDSN", adapter |-> "", details |-> <<>>, log |-> <<>>]
    ELSE get_connection(ADAPTERS[CHOOSE name \in names : TRUE], dsn,
                        IF ADAPTERS[CHOOSE name \in names : TRUE] = "sqlite"
                        THEN FILESYSTEM_DSN(dsn) ELSE DAEMON_DSN(dsn),
                        connected)

get_adapter(dsn, connected) ==
    Adapted(dsn, {name \in DOMAIN ADAPTERS : startswith(dsn, name)}, connected)

(* The descriptors tried: a backend name, known or not, what separates it   *)
(* from the rest, and a path or the parts of a server's address.            *)
DsnParts ==
    [names |->
         {<<"s", "q", "l", "i", "t", "e">>,
          <<"m", "y", "s", "q", "l">>,
          <<"p", "o", "s", "t", "g", "r", "e", "s">>,
          <<"f", "o", "o">>,
          <<"s", "q", "l", "i", "t", "e", "x">>,
          <<"p", "o", "s", "t", "g", "r", "e", "s", "q", "l">>,
          <<"m", "y">>,
          <<>>},
     separators |-> {<<":", "/", "/">>, <<":", "/">>, <<>>},
     rests |->
         {<<>>,
          <<"/">>,
          <<"/", "t", "m", "p", "/", "t", ".", "d", "b">>,
          <<"l", "o", "c", "a", "l", "h", "o", "s", "t", "/", "t", "e", "s", "t">>,
          <<"b", "a", "r">>,
          <<"u", ":", "p", "@", "h", ":", "5", "4", "3", "2", "/", "d">>,
          <<"u", ":", "@", "h", ":", "/", "d">>,
          <<"u", ":", "@", "h", "/", "d">>,
          <<":", "p", "@", "h", ":", "1", "/", "d">>,
          <<"u", ":", "p", "@", "h", ":", "x", "/", "d">>,
          <<"u", "-", "1", ":", "p", "@", "h", ":", "1", "/", "d", ":", "2", "/", "e">>}]

Dsns == {n \o p \o r : n \in DsnParts.names, p \in DsnParts.separators, r \in DsnParts.rests}

(* Bitty(dsn): the facade holds the adapter get_adapter returned, or there  *)
(* is no facade when it raised.                                             *)
Open ==
    \E dsn \in Dsns, connected \in BOOLEAN :
        /\ ret.op = ""
        /\ kind' = IF get_adapter(dsn, connected).raised = ""
                   THEN get_adapter(dsn, connected).adapter ELSE kind
        /\ connection' = IF get_adapter(dsn, connected).raised = "" THEN "open" ELSE "closed"
        /\ log' = get_adapter(dsn, connected).log
        /\ ret' = Call("open", <<>>, NoneV, <<>>, FALSE,
                       IF get_adapter(dsn, connected).raised = "" THEN "ok"
                       ELSE get_adapter(dsn, connected).raised,
                       dsn, <<>>, -1, get_adapter(dsn, connected).adapter,
                       get_adapter(dsn, connected).details)
        /\ UNCHANGED <<_tables, db, committed, introspections, calls>>

SpecOpen == Init /\ [][Open]_vars

-----------------------------------------------------------------------------
(* Properties.                                                              *)

(* The names of a mapping in ascending order: the one arrangement of all    *)
(* its names in which each is less than the next.                           *)
Ascending(names) == \A i \in 1..(Len(names) - 1) : StrLess(names[i], names[i + 1])

Arrangements(kwargs) == [1..Len(kwargs) -> Range(keys(kwargs))]

Reorderings(kwargs) ==
    {[i \in 1..Len(kwargs) |-> kwargs[p[i]]] :
        p \in {q \in [1..Len(kwargs) -> 1..Len(kwargs)] :
                 \A i, j \in 1..Len(kwargs) : i # j => q[i] # q[j]}}

(* C1: for every non-empty field mapping the insert compiler returns        *)
(* INSERT INTO <table> (<cols>) VALUES (<placeholders>) with the column     *)
(* names in ascending order, one placeholder per column, and the bind       *)
(* values in the order of the sorted columns, whatever the supply order.    *)
C1_InsertSortedColumns ==
    (ret.op = "_build_insert_query" /\ ret.kwargs # <<>>) =>
        /\ ret.status = "ok"
        /\ \E names \in Arrangements(ret.kwargs) :
             /\ Ascending(names)
             /\ ret.query = Text.insert_into \o ret.table \o <<" ", "(">>
                              \o join(Text.comma, names) \o <<")">> \o Text.values \o <<"(">>
                              \o join(Text.comma, [i \in 1..Len(names) |-> BINDING_OP(kind)])
                              \o <<")">>
             /\ ret.values = [i \in 1..Len(names) |-> Get(ret.kwargs, names[i])]

(* The fields name, id, age were supplied in that order and came out as     *)
(* age, id, name with binds 27, 1, 'Daniel'.                                *)
C1_Witness ==
    /\ ret.op = "_build_insert_query"
    /\ keys(ret.kwargs) = <<s_name, s_id, s_age>>
    /\ ret.values = <<IntV(27), IntV(1), StrV(s_Daniel)>>

(* C2: for every non-empty filter expression that compiles, the where       *)
(* clause is "WHERE " followed by exactly one clause per key, in ascending  *)
(* order of the full keys, joined with " AND ", and the binds follow the    *)
(* same order; every reordering of the same pairs compiles to the same SQL  *)
(* text and bind list (or raises the same error).                           *)
C2_WhereSortedOneClausePerKey ==
    (ret.op = "_build_where_clause" /\ ret.kwargs # <<>>) =>
        /\ ret.status = "ok" =>
             \E names \in Arrangements(ret.kwargs) :
                /\ Ascending(names)
                /\ ret.query =
                     Text.where \o join(Text.and,
                                     [i \in 1..Len(names) |->
                                        WhereStep(kind, split(names[i]),
                                                  Get(ret.kwargs, names[i])).clause])
                /\ ret.values =
                     Flatten([i \in 1..Len(names) |->
                                WhereStep(kind, split(names[i]),
                                          Get(ret.kwargs, names[i])).binds])
        /\ \A kw \in Reorderings(ret.kwargs) :
             _build_where_clause(kind, kw) = [status |-> ret.status, query |-> ret.query,
                                              values |-> ret.values]

(* Two keys were supplied in descending order and compiled.                 *)
C2_Witness ==
    /\ ret.op = "_build_where_clause"
    /\ ret.status = "ok"
    /\ keys(ret.kwargs) = <<Key.name__startswith, Key.id__gte>>
    /\ ret.values = <<IntV(1), StrV(s_Dan \o <<"%">>)>>

(* The pairs of a filter expression made of comparison, pattern and exact   *)
(* lookups only: each of its keys binds one value.                          *)
OneBindEach(kwargs) ==
    \A i \in 1..Len(kwargs) :
        Len(split(kwargs[i][1])) = 1
        \/ (Len(split(kwargs[i][1])) = 2 /\ split(kwargs[i][1])[2] \in FilterOps)

(* C3: a startswith, endswith or contains lookup compiles to                *)
(* column LIKE <placeholder> (followed by the escape declaration on the     *)
(* file-based backend) and binds the value, as text, with % appended for    *)
(* startswith, prepended for endswith and both for contains; lt, lte, gt,   *)
(* gte and exact lookups bind the value unchanged.                          *)
C3_PatternBinds ==
    (ret.op = "_build_where_clause" /\ ret.kwargs # <<>> /\ OneBindEach(ret.kwargs)) =>
        /\ ret.status = "ok"
        /\ \E names \in Arrangements(ret.kwargs) :
             /\ Ascending(names)
             /\ Len(ret.values) = Len(names)
             /\ \A i \in 1..Len(names) :
                  LET parts == split(names[i])
                      value == Get(ret.kwargs, names[i])
                      op == IF Len(parts) = 2 THEN parts[2] ELSE <<>>
                  IN  /\ op = s_startswith =>
                           ret.values[i] = StrV(PyStr(value) \o <<"%">>)
                      /\ op = s_endswith =>
                           ret.values[i] = StrV(<<"%">> \o PyStr(value))
                      /\ op = s_contains =>
                           ret.values[i] = StrV(<<"%">> \o PyStr(value) \o <<"%">>)
                      /\ op \notin {s_startswith, s_endswith, s_contains} =>
                           ret.values[i] = value
             /\ ret.query =
                  Text.where \o join(Text.and,
                     [i \in 1..Len(names) |->
                        LET parts == split(names[i])
                            op == IF Len(parts) = 2 THEN parts[2] ELSE <<>>
                        IN  parts[1]
                              \o (IF op \in {s_startswith, s_endswith, s_contains}
                                  THEN Text.like \o BINDING_OP(kind)
                                         \o (IF kind = "sqlite" THEN Text.escape ELSE <<>>)
                                  ELSE IF op = s_lt THEN Text.lt \o BINDING_OP(kind)
                                  ELSE IF op = s_lte THEN Text.lte \o BINDING_OP(kind)
                                  ELSE IF op = s_gt THEN Text.gt \o BINDING_OP(kind)
                                  ELSE IF op = s_gte THEN Text.gte \o BINDING_OP(kind)
                                  ELSE Text.eq \o BINDING_OP(kind))])

(* name__startswith='Dan' and name__endswith='Dan' compiled together.       *)
C3_Witness ==
    /\ ret.op = "_build_where_clause"
    /\ keys(ret.kwargs) = <<Key.name__startswith, Key.name__endswith>>
    /\ ret.values = <<StrV(<<"%">> \o s_Dan), StrV(s_Dan \o <<"%">>)>>

(* The number of separators '__' in a key, counted left to right without    *)
(* overlap.                                                                 *)
RECURSIVE Separators(_)
Separators(key) ==
    IF Len(key) < 2 THEN 0
    ELSE IF key[1] = "_" /\ key[2] = "_" THEN 1 + Separators(SubSeq(key, 3, Len(key)))
    ELSE Separators(Tail(key))

(* C4: a filter expression with a key that holds the separator more than    *)
(* once never compiles: the compiler raises, and returns no SQL fragment    *)
(* and no bind list, however many well-formed keys sort before that key;    *)
(* the error is QueryError whenever every 'in' lookup of the expression     *)
(* was given a sequence, as the lookup requires.                            *)
C4_TooManySeparators ==
    (/\ ret.op = "_build_where_clause"
     /\ \E i \in 1..Len(ret.kwargs) : Separators(ret.kwargs[i][1]) > 1) =>
        /\ ret.status # "ok"
        /\ ret.query = <<>>
        /\ ret.values = <<>>
        /\ (\A i \in 1..Len(ret.kwargs) :
               (Len(split(ret.kwargs[i][1])) = 2 /\ split(ret.kwargs[i][1])[2] = s_in)
                  => Iterable(ret.kwargs[i][2]))
             => ret.status = "QueryError"

(* x__y__z was refused though name__startswith sorts before it and compiles. *)
C4_Witness ==
    /\ ret.op = "_build_where_clause"
    /\ ret.status = "QueryError"
    /\ keys(ret.kwargs) = <<Key.x__y__z, Key.name__startswith>>

(* C5 as the specification words it: with an empty mapping both the insert *)
(* compiler and add raise QueryError and no INSERT text comes back.         *)
C5_CompilerRefusesEmpty ==
    (ret.op \in {"_build_insert_query", "add"} /\ ret.kwargs = <<>>) =>
        (ret.status = "QueryError" /\ ret.query = <<>>)

(* C5: add with an empty mapping raises QueryError before anything is       *)
(* compiled or sent to the connection; the insert compiler itself makes no  *)
(* such check and returns INSERT INTO <table> () VALUES () with no binds.   *)
C5_AddRefusesEmpty ==
    /\ (ret.op = "add" /\ ret.kwargs = <<>>) =>
          /\ ret.status = "QueryError"
          /\ ret.query = <<>>
          /\ log = <<>>
    /\ (ret.op = "_build_insert_query" /\ ret.kwargs = <<>>) =>
          /\ ret.status = "ok"
          /\ ret.query = Text.insert_into \o ret.table \o <<" ", "(", ")">> \o Text.values
                           \o <<"(", ")">>
          /\ ret.values = <<>>

(* add was called with no fields on an adapter that had run a call before.  *)
C5_Witness ==
    /\ ret.op = "add"
    /\ ret.kwargs = <<>>
    /\ ret.status = "QueryError"
    /\ calls > 1

(* No row of table t of the database has pk as its id.                      *)
NoRow(t, pk) ==
    t \in DOMAIN db /\ \A i \in 1..Len(db[t].rows) : db[t].rows[i][s_id] # pk

C7_EmptySequenceOrNone ==
    [][/\ (ret'.op = "find" /\ ret'.status = "ok") => ret'.flag = ""
       /\ (/\ ret'.op = "find"
           /\ connection = "open"
           /\ ret'.table \in DOMAIN db
           /\ \/ ret'.kwargs = <<>> /\ db[ret'.table].rows = <<>>
              \/ /\ Len(ret'.kwargs) = 1
                 /\ ret'.kwargs[1][1] = s_id
                 /\ NoRow(ret'.table, ret'.kwargs[1][2])) =>
            /\ ret'.status = "ok"
            /\ ret'.rows = <<>>
       /\ ret'.op = "get" =>
            LET found == find(kind, Self, ret'.table, ret'.kwargs)
            IN  IF found.raised # "" THEN ret'.status = found.raised
                ELSE /\ ret'.status = "ok"
                     /\ IF found.rows = <<>>
                        THEN ret'.flag = "None" /\ ret'.rows = <<>>
                        ELSE ret'.flag = "" /\ ret'.rows = <<found.rows[1]>>]_vars

(* get found nothing on a table whose rows an earlier call had deleted.     *)
C7_Witness ==
    /\ ret.op = "get"
    /\ ret.status = "ok"
    /\ ret.flag = "None"
    /\ ret.table = s_log
    /\ db[s_log].rows = <<>>

(* C8: every Record find returns has exactly the registered column names of *)
(* its table as keys, the registered list is in ascending order, and the    *)
(* value under each key is the value of that column in a row of the table;  *)
(* with no filter the Records are the rows of the table, in their order.    *)
C8_RecordKeysAreRegisteredColumns ==
    (ret.op = "find" /\ ret.status = "ok") =>
        /\ ret.table \in DOMAIN _tables
        /\ Ascending(_tables[ret.table])
        /\ \A i \in 1..Len(ret.rows) :
             /\ DOMAIN ret.rows[i] = Range(_tables[ret.table])
             /\ \E j \in 1..Len(db[ret.table].rows) :
                  \A c \in Range(_tables[ret.table]) :
                     ret.rows[i][c] = db[ret.table].rows[j][c]
        /\ ret.kwargs = <<>> =>
             /\ Len(ret.rows) = Len(db[ret.table].rows)
             /\ \A i \in 1..Len(ret.rows) :
                  \A c \in Range(_tables[ret.table]) :
                     ret.rows[i][c] = db[ret.table].rows[i][c]

(* find returned the rows of log, which declares name before id.            *)
C8_Witness ==
    /\ ret.op = "find"
    /\ ret.status = "ok"
    /\ ret.table = s_log
    /\ Len(ret.rows) = 2
    /\ ret.rows[1][s_id] = IntV(1)
    /\ ret.rows[1][s_name] = StrV(s_foo)

(* C9: a table in the column cache stays there with the same column list,   *)
(* no later call issues an introspection query for it, and a find on it     *)
(* executes its SELECT and nothing else; every cached table was             *)
(* introspected once.                                                       *)
C9_IntrospectedOnce ==
    /\ [][\A t \in DOMAIN _tables :
            /\ t \in DOMAIN _tables'
            /\ _tables'[t] = _tables[t]
            /\ introspections'[t] = introspections[t]
            /\ (ret'.op = "find" /\ ret'.table = t /\ ret'.status = "ok") =>
                  log' = <<"cursor", "execute">>]_vars
    /\ [](\A t \in DOMAIN _tables : introspections[t] = 1)

(* The third call was a find on people, the table was already cached, and   *)
(* the one introspection is still the only one.                             *)
C9_Witness ==
    /\ calls = MaxCalls
    /\ ret.op = "find"
    /\ ret.table = s_people
    /\ ret.status = "ok"
    /\ log = <<"cursor", "execute">>
    /\ introspections[s_people] = 1

(* C10 as the specification words it: a find on a table that is not cached *)
(* and does not exist raises QueryError, whatever the backend.              *)
C10_MissingTableRaisesQueryError ==
    [][(/\ ret'.op = "find"
        /\ ret'.table = s_missing
        /\ s_missing \notin DOMAIN _tables
        /\ s_missing \notin DOMAIN db
        /\ connection = "open") => ret'.status = "QueryError"]_vars

(* C11: when execute, or the commit after it, raises inside raw, the next   *)
(* thing the adapter does on the connection is rollback, and then the call  *)
(* ends raising what the driver raised: no cursor, no result, no other      *)
(* error, and nothing pending on the connection; rollback is called for no  *)
(* other reason.                                                            *)
C11_RollbackThenReraise ==
    ret.op # "close" =>
        /\ \A i \in 1..Len(log) :
             log[i] \in {"execute!", "commit!"} =>
                /\ i + 1 = Len(log)
                /\ log[i + 1] = "rollback"
                /\ ret.status = (IF log[i] = "execute!" THEN "DriverError" ELSE "CommitError")
                /\ ret.rowcount = -1
                /\ ret.flag = ""
                /\ ret.rows = <<>>
                /\ db = committed
        /\ \A i \in 1..Len(log) :
             log[i] = "rollback" => (i > 1 /\ log[i - 1] \in {"execute!", "commit!"})

(* The driver refused the commit of a raw DELETE that had executed.         *)
C11_Witness ==
    /\ ret.op = "raw"
    /\ ret.status = "CommitError"
    /\ log = <<"cursor", "execute", "commit!", "rollback">>
    /\ Len(db[s_log].rows) = 2

(* The fields kwargs give an id that a row of the keyed table t has.        *)
Conflict(t, kwargs) ==
    /\ t \in DOMAIN db
    /\ db[t].key
    /\ \E i \in 1..Len(kwargs) : kwargs[i][1] = s_id /\ ~NoRow(t, kwargs[i][2])

(* C12 as the specification words it: an add that breaks the key raises the *)
(* driver's failure and the rows of the table after the call are its rows   *)
(* before the call.                                                         *)
C12_RowsAsBeforeTheCall ==
    [][(ret'.op = "add" /\ connection = "open" /\ Conflict(ret'.table, ret'.kwargs)) =>
          /\ ret'.status = "DriverError"
          /\ db'[ret'.table].rows = db[ret'.table].rows]_vars

(* C12: an add that breaks the key raises the driver's failure and returns  *)
(* nothing; afterwards the connection sees the committed rows as they were  *)
(* before the call, which are the rows it saw before the call unless an     *)
(* earlier raw(commit=False) had left work uncommitted: the rollback        *)
(* discards that work too.  The next add of a name alone on people returns  *)
(* True and adds one row.                                                   *)
C12_ConflictRaisesAndRollsBack ==
    [][/\ (ret'.op = "add" /\ connection = "open" /\ Conflict(ret'.table, ret'.kwargs)) =>
            /\ ret'.status = "DriverError"
            /\ ret'.flag = ""
            /\ committed' = committed
            /\ db' = committed
            /\ db = committed => db'[ret'.table].rows = db[ret'.table].rows
       /\ (/\ ret.op = "add"
           /\ ret.status = "DriverError"
           /\ connection = "open"
           /\ ret'.op = "add"
           /\ ret'.table = s_people
           /\ ret'.kwargs = <<f_name>>) =>
            /\ ret'.status = "ok"
            /\ ret'.flag = "True"
            /\ Len(db'[s_people].rows) = Len(db[s_people].rows) + 1]_vars

(* An add of id 1 was refused, and the add after it went through.           *)
C12_Witness ==
    /\ calls = MaxCalls
    /\ ret.op = "add"
    /\ ret.kwargs = <<f_name>>
    /\ ret.flag = "True"
    /\ introspections = [t \in TableNames |-> 0]
    /\ Len(db[s_people].rows) = 2
    /\ db[s_people].rows[2][s_id] = IntV(2)

(* The results r of a find hold a record with the field values kwargs that  *)
(* is the last row of table t of d.                                         *)
ReturnsAdded(r, d, t, kwargs) ==
    /\ r.raised = ""
    /\ \E i \in 1..Len(r.rows) :
          /\ \A j \in 1..Len(kwargs) : r.rows[i][kwargs[j][1]] = kwargs[j][2]
          /\ r.rows[i] = d[t].rows[Len(d[t].rows)]

(* C13: once add has returned True the row is committed: a find with the    *)
(* same field values through a second facade, opened on the database after  *)
(* the add while the first is still open, returns the row.                  *)
C13_AddedRowIsCommitted ==
    (ret.op = "add" /\ ret.flag = "True") =>
        /\ connection = "open"
        /\ db = committed
        /\ ReturnsAdded(find(kind, Bitty(committed), ret.table, ret.kwargs),
                        db, ret.table, ret.kwargs)

(* The add of the regression test went through: a name alone, on people.    *)
C13_Witness ==
    /\ ret.op = "add"
    /\ ret.flag = "True"
    /\ ret.kwargs = <<f_name>>
    /\ Len(committed[s_people].rows) = 2
    /\ Len(find(kind, Bitty(committed), s_people, <<f_name>>).rows) = 1

(* The backend name before "://" is one of ADAPTERS and dsn matches the     *)
(* pattern of that backend: sqlite://<path>, or mysql or postgres with      *)
(* <user>:<password>@<host>:<port>/<database>.                              *)
Recognized(dsn) ==
    \/ FILESYSTEM_DSN(dsn) # <<>> /\ FILESYSTEM_DSN(dsn)[1].adapter = <<"s", "q", "l", "i", "t", "e">>
    \/ /\ DAEMON_DSN(dsn) # <<>>
       /\ DAEMON_DSN(dsn)[1].adapter \in DOMAIN ADAPTERS \ {<<"s", "q", "l", "i", "t", "e">>}

(* C14 as the specification words it: adapter selection succeeds only for a *)
(* descriptor that matches the pattern of a recognized backend; for every   *)
(* other descriptor, one with an unknown backend name among them, it raises *)
(* InvalidDSN and no connection was opened or tried.                        *)
C14_OnlyRecognizedDescriptorsOpen ==
    (ret.op = "open" /\ ~Recognized(ret.query)) =>
        /\ ret.status = "InvalidDSN"
        /\ log = <<>>

(* The number of placeholders b among the words of a statement.             *)
PlaceholderCount(words, b) == Cardinality({i \in 1..Len(words) : words[i] = b})

(* The number of placeholders in the clauses before the j-th.               *)
RECURSIVE Before(_, _)
Before(clauses, j) == IF j <= 1 THEN 0 ELSE Before(clauses, j - 1) + clauses[j - 1].n

(* The i-th of the names read from the statement takes the i-th value, and  *)
(* that is the value kwargs gives the name.                                 *)
FieldsAligned(names, values, kwargs) ==
    /\ Len(names) = Len(kwargs)
    /\ \A i \in 1..Len(names) : values[i] = Get(kwargs, names[i])

(* What the clause of key binds: the elements of an "in" lookup in their    *)
(* order, else the one value, with the wildcards of a pattern lookup.       *)
Bound(key, value) ==
    IF Len(split(key)) = 2 /\ split(key)[2] = s_in THEN Elements(value)
    ELSE IF Len(split(key)) = 2 THEN <<LikeValue(split(key)[2], value)>>
    ELSE <<value>>

(* The clauses read from the statement are those of the sorted keys, and    *)
(* the placeholders of the j-th clause take, from left to right, what its   *)
(* key binds.                                                               *)
FiltersAligned(clauses, values, kwargs, names) ==
    /\ Len(clauses) = Len(names)
    /\ \A j \in 1..Len(clauses) :
          /\ clauses[j].col = split(names[j])[1]
          /\ clauses[j].n = Len(Bound(names[j], Get(kwargs, names[j])))
          /\ SubSeq(values, Before(clauses, j) + 1, Before(clauses, j) + clauses[j].n)
               = Bound(names[j], Get(kwargs, names[j]))

(* The statement st read from what a compiler returned lines up with the    *)
(* values it returned.                                                      *)
Aligned(c, st, b) ==
    IF c.op = "_build_insert_query"
    THEN Len(c.kwargs) > 0 =>
            st.verb = "insert" /\ FieldsAligned(st.cols, c.values, c.kwargs)
    ELSE IF c.op = "_build_update_query"
    THEN /\ c.values[Len(c.values)] = c.pk
         /\ Len(c.kwargs) > 0 =>
              /\ st.verb = "update"
              /\ FieldsAligned(st.cols, c.values, c.kwargs)
              /\ Len(st.where) = 1 /\ st.where[1].col = s_id /\ st.where[1].n = 1
    ELSE IF c.op = "_build_delete_query"
    THEN /\ st.verb = "delete"
         /\ Len(st.where) = 1 /\ st.where[1].col = s_id /\ st.where[1].n = 1
         /\ c.values = <<c.pk>>
    ELSE IF c.op = "_build_select_query"
    THEN /\ st.verb = "select"
         /\ FiltersAligned(st.where, c.values, c.kwargs, sorted(keys(c.kwargs)))
    ELSE /\ OptWhere(Words(c.query), 1, b).ok
         /\ FiltersAligned(OptWhere(Words(c.query), 1, b).items, c.values, c.kwargs,
                           sorted(keys(c.kwargs)))

(* C15: a statement the insert, update, delete, select or filter compiler   *)
(* returns has as many bind values as placeholders, and the i-th value is   *)
(* the one of the i-th placeholder from the left: the value of the column   *)
(* or clause the placeholder stands in, the elements of an "in" lookup one  *)
(* placeholder each in their order, the primary key of an update last.      *)
C15_BindsMatchPlaceholders ==
    (ret.status = "ok" /\ ret.op \in {"_build_insert_query", "_build_update_query",
                                      "_build_delete_query", "_build_select_query",
                                      "_build_where_clause"}) =>
        /\ Len(ret.values) = PlaceholderCount(Words(ret.query), BINDING_OP(kind))
        /\ Aligned(ret, Parse(ret.query, BINDING_OP(kind)), BINDING_OP(kind))

(* A select with an "in" lookup of three elements before an exact match.    *)
C15_Witness ==
    /\ ret.op = "_build_select_query"
    /\ ret.status = "ok"
    /\ Len(ret.kwargs) = 2
    /\ Len(ret.values) = 4
    /\ ret.values[4] = StrV(s_Dan)
    /\ PlaceholderCount(Words(ret.query), BINDING_OP(kind)) = 4

(* The text SELECT <names, comma separated> FROM <table>.                   *)
SelectFrom(names, table) == Text.select \o join(Text.comma, names) \o Text.from \o table

(* C16: the select compiler emits SELECT, the registered columns of the     *)
(* table in ascending order, FROM and the table; it appends a blank and the *)
(* fragment of the filter compiler when the filter is not empty, and the    *)
(* statement has a WHERE exactly then.  For an empty filter the filter      *)
(* compiler returns the empty text and no bind values.                      *)
C16_SelectHasWhereIffFiltered ==
    /\ (ret.op = "_build_select_query" /\ ret.status = "ok") =>
         /\ Range(_tables[ret.table]) = Range(db[ret.table].cols)
         /\ Ascending(_tables[ret.table])
         /\ SubSeq(ret.query, 1, Len(SelectFrom(_tables[ret.table], ret.table)))
              = SelectFrom(_tables[ret.table], ret.table)
         /\ (KW.where \in Range(Words(ret.query))) <=> (ret.kwargs # <<>>)
         /\ ret.kwargs = <<>> =>
              ret.query = SelectFrom(_tables[ret.table], ret.table) /\ ret.values = <<>>
         /\ ret.kwargs # <<>> =>
              /\ SubSeq(ret.query, Len(SelectFrom(_tables[ret.table], ret.table)) + 1,
                        Len(ret.query))
                   = <<" ">> \o _build_where_clause(kind, ret.kwargs).query
              /\ SubSeq(ret.query, Len(SelectFrom(_tables[ret.table], ret.table)) + 2,
                        Len(SelectFrom(_tables[ret.table], ret.table)) + 7) = Text.where
    /\ (ret.op = "_build_where_clause" /\ ret.kwargs = <<>>) =>
         ret.status = "ok" /\ ret.query = <<>> /\ ret.values = <<>>

(* A select on people with a filter of two keys.                            *)
C16_Witness ==
    /\ ret.op = "_build_select_query"
    /\ ret.status = "ok"
    /\ ret.table = s_people
    /\ Len(ret.kwargs) = 2
    /\ _tables[s_people] = <<s_age, s_id, s_name>>
    /\ KW.where \in Range(Words(ret.query))

(* C17 as the specification words it: a find issues no commit on the        *)
(* connection, the introspection query of a table not yet registered        *)
(* included, whatever the backend.                                          *)
C17_FindNeverCommits ==
    ret.op = "find" => \A i \in 1..Len(log) : log[i] \notin {"commit", "commit!"}

(* key is column__operator with an operator that is no lookup: not lt, lte, *)
(* gt, gte, startswith, endswith, contains or in; it may be empty.          *)
UnknownOperator(key) ==
    /\ Separators(key) = 1
    /\ Len(split(key)) = 2
    /\ split(key)[2] \notin FilterOps \cup {s_in}

(* A pair the filter compiler refuses: a key with more than one separator,  *)
(* or an "in" lookup of a value that is no sequence.                        *)
Refused(pair) ==
    \/ Len(split(pair[1])) > 2
    \/ Len(split(pair[1])) = 2 /\ split(pair[1])[2] = s_in /\ ~Iterable(pair[2])

(* The j-th clause read from a fragment is column = <placeholder>, and the  *)
(* value bound to its placeholder is value.                                 *)
ExactMatch(clauses, values, j, column, value) ==
    /\ j <= Len(clauses)
    /\ clauses[j].col = column
    /\ clauses[j].op = <<"=">>
    /\ clauses[j].n = 1
    /\ values[Before(clauses, j) + 1] = value

(* C18: a key column__operator whose operator is no lookup raises nothing:  *)
(* the filter compiles unless another of its pairs is refused, and the      *)
(* clause of the key, at its place among the sorted keys, is                *)
(* column = <placeholder> on the part before the separator, bound to the    *)
(* value as it was given.                                                   *)
C18_UnknownOperatorIsExactMatch ==
    (ret.op = "_build_where_clause"
       /\ \E i \in 1..Len(ret.kwargs) : UnknownOperator(ret.kwargs[i][1])) =>
        /\ ret.status # "ok" => \E i \in 1..Len(ret.kwargs) : Refused(ret.kwargs[i])
        /\ ret.status = "ok" =>
             \A j \in 1..Len(ret.kwargs) :
                UnknownOperator(sorted(keys(ret.kwargs))[j]) =>
                   ExactMatch(OptWhere(Words(ret.query), 1, BINDING_OP(kind)).items,
                              ret.values, j, split(sorted(keys(ret.kwargs))[j])[1],
                              Get(ret.kwargs, sorted(keys(ret.kwargs))[j]))

(* name__ alone compiled to WHERE name = <placeholder>, bound to the value. *)
C18_Witness ==
    /\ ret.op = "_build_where_clause"
    /\ ret.status = "ok"
    /\ keys(ret.kwargs) = <<Key.name__>>
    /\ ret.query = Text.where \o s_name \o Text.eq \o BINDING_OP(kind)
    /\ ret.values = <<StrV(s_Dan)>>

====
